---- MODULE Spec2Model ----
(***************************************************************************)
(* BaseDataset of pyhealth/datasets/base_dataset.py: the table loader, the *)
(* diagonal concatenation of the per-table event frames, the memoized      *)
(* materialization and the per-patient views built on it.                  *)
(*                                                                         *)
(* A frame (lazy or collected) is [columns, rows]: columns is the ordered  *)
(* list of column names, rows the ordered list of rows, a row a function   *)
(* from column names to cells.  Rows also carry the keys "#file" and       *)
(* "#row", the file and line a scanned row was read from; they are not     *)
(* columns, they only let the properties speak of a row's origin.          *)
(***************************************************************************)
EXTENDS Integers, Sequences, FiniteSets, TLC

VARIABLES
    files,                       \* the CSV files under self.root
    config,                      \* self.config
    tables,                      \* self.tables
    default_task,                \* what the default_task property returns
    global_event_df,             \* self.global_event_df (a LazyFrame)
    _collected_global_event_df,  \* the cache of the collected frame
    _unique_patient_ids,         \* the cache of the patient id list
    evaluations,                 \* how often global_event_df.collect() ran
    ret                          \* the last call and what it returned

vars == <<files, config, tables, default_task, global_event_df,
          _collected_global_event_df, _unique_patient_ids, evaluations, ret>>

\* The most rows the file of the diagnoses table holds.
MaxRows == 3

(***************************************************************************)
(* Cells.  With infer_schema=False every scanned cell is text or null; an  *)
(* empty CSV field is null.  None is Python's None and the polars null.    *)
(***************************************************************************)
None == [null |-> TRUE]
Str(s) == [null |-> FALSE, v |-> s]
Datetime(y, mo, d, h, mi, s) == [null |-> FALSE, dt |-> <<y, mo, d, h, mi, s>>]
\* A Python list held where None may be held instead.
List(items) == [null |-> FALSE, items |-> items]

(***************************************************************************)
(* Sequence helpers.                                                       *)
(***************************************************************************)
Range(s) == {s[i] : i \in DOMAIN s}

RECURSIVE Flatten(_)
Flatten(ss) == IF ss = <<>> THEN <<>> ELSE Head(ss) \o Flatten(Tail(ss))

IsInjective(s) == \A i, j \in DOMAIN s : s[i] = s[j] => i = j

Permutations_of(S) == {p \in [1..Cardinality(S) -> S] : Range(p) = S}

(***************************************************************************)
(* Text of the timestamp cells, character by character (the text of a      *)
(* string literal cannot be indexed, so the literals used in the files are *)
(* spelled out here).                                                      *)
(***************************************************************************)
Chars(s) ==
    CASE s = "2020-01-01 10:00:00" ->
           <<"2","0","2","0","-","0","1","-","0","1"," ","1","0",":","0","0",":","0","0">>
      [] s = "2020-01-02 09:30:00" ->
           <<"2","0","2","0","-","0","1","-","0","2"," ","0","9",":","3","0",":","0","0">>
      [] s = "2020-13-01 10:00:00" ->
           <<"2","0","2","0","-","1","3","-","0","1"," ","1","0",":","0","0",":","0","0">>
      [] s = "2020/01/01 10:00:00" ->
           <<"2","0","2","0","/","0","1","/","0","1"," ","1","0",":","0","0",":","0","0">>
      [] s = "2021-02-30 10:00:00" ->
           <<"2","0","2","1","-","0","2","-","3","0"," ","1","0",":","0","0",":","0","0">>
      [] s = "not-a-date" ->
           <<"n","o","t","-","a","-","d","a","t","e">>

Digits == {"0","1","2","3","4","5","6","7","8","9"}

DigitVal(c) ==
    CASE c = "0" -> 0 [] c = "1" -> 1 [] c = "2" -> 2 [] c = "3" -> 3 [] c = "4" -> 4
      [] c = "5" -> 5 [] c = "6" -> 6 [] c = "7" -> 7 [] c = "8" -> 8 [] c = "9" -> 9

\* The number written by the digits cs[from..to].
RECURSIVE Number(_, _, _)
Number(cs, from, to) ==
    IF to < from THEN 0 ELSE 10 * Number(cs, from, to - 1) + DigitVal(cs[to])

IsLeap(y) == (y % 4 = 0 /\ y % 100 # 0) \/ y % 400 = 0

DaysInMonth(y, m) ==
    IF m = 2 THEN (IF IsLeap(y) THEN 29 ELSE 28)
    ELSE IF m \in {4, 6, 9, 11} THEN 30 ELSE 31

\* The positions of the digits and of the separators of a time format
\* "%Y<d>%m<d>%d %H:%M:%S" whose date separator is dateSep.
DigitPositions == {1, 2, 3, 4, 6, 7, 9, 10, 12, 13, 15, 16, 18, 19}

Separators(dateSep) ==
    [i \in {5, 8, 11, 14, 17} |->
        IF i \in {5, 8} THEN dateSep ELSE IF i = 11 THEN " " ELSE ":"]

\* str.strptime(pl.Datetime, fmt, strict=False) on one cell: the date-time the
\* text spells, null for a null cell and for text that does not parse.
ParseDatetime(cell, dateSep) ==
    IF cell = None THEN None
    ELSE LET cs == Chars(cell.v)
             y  == Number(cs, 1, 4)
             mo == Number(cs, 6, 7)
             d  == Number(cs, 9, 10)
             h  == Number(cs, 12, 13)
             mi == Number(cs, 15, 16)
             s  == Number(cs, 18, 19)
         IN  IF /\ Len(cs) = 19
                /\ \A i \in DigitPositions : cs[i] \in Digits
                /\ \A i \in DOMAIN Separators(dateSep) : cs[i] = Separators(dateSep)[i]
                /\ mo \in 1..12
                /\ d \in 1..DaysInMonth(y, mo)
                /\ h \in 0..23 /\ mi \in 0..59 /\ s \in 0..59
             THEN Datetime(y, mo, d, h, mi, s)
             ELSE None

\* The same parse with the format "%Y/%m/%d %H:%M:%S".
strptime_slash(cell) == ParseDatetime(cell, "/")

\* pl.col(timestamp_col).str.strptime(pl.Datetime, "%Y-%m-%d %H:%M:%S", strict=False)
strptime(cell) == ParseDatetime(cell, "-")

(***************************************************************************)
(* Results of calls: a returned value or a raised exception.               *)
(***************************************************************************)
Return(v) == [ok |-> TRUE, value |-> v]
Raise(e) == [ok |-> FALSE, error |-> e]

\* dict.get(key, default)
Get(d, key, default) == IF key \in DOMAIN d THEN d[key] ELSE default

(***************************************************************************)
(* The polars operations load_table and load_data are built from.          *)
(***************************************************************************)
\* pl.scan_csv(path, infer_schema=False)
scan_csv(path) ==
    [columns |-> files[path].columns,
     rows    |-> [i \in DOMAIN files[path].rows |->
                    files[path].rows[i] @@ ("#file" :> path) @@ ("#row" :> i)]]

\* LazyFrame.select of plain column names.
select(df, cols) ==
    [columns |-> cols,
     rows    |-> [i \in DOMAIN df.rows |-> [c \in Range(cols) |-> df.rows[i][c]]]]

\* The name a non-key column of the right frame gets in a join: polars appends
\* "_right" when the left frame already has a column of that name.
RightName(c, leftColumns) == IF c \in Range(leftColumns) THEN c \o "_right" ELSE c

\* Equality of join keys: a null key matches nothing.
KeysMatch(a, b) == a # None /\ b # None /\ a = b

\* df.join(other, on=key, how=how) for how in {"left", "inner"}; other's first
\* column is the key.
join(df, other, on, how) ==
    LET pulled  == Tail(other.columns)
        named   == [i \in DOMAIN pulled |-> RightName(pulled[i], df.columns)]
        Src(n)  == pulled[CHOOSE i \in DOMAIN named : named[i] = n]
        Matches(l) == SelectSeq(other.rows, LAMBDA r : KeysMatch(l[on], r[on]))
        RowsFor(l) ==
            LET m == Matches(l)
            IN  IF m # <<>>
                THEN [j \in DOMAIN m |-> l @@ [n \in Range(named) |-> m[j][Src(n)]]]
                ELSE IF how = "left"
                     THEN <<l @@ [n \in Range(named) |-> None]>>
                     ELSE <<>>
    IN  [columns |-> df.columns \o named,
         rows    |-> Flatten([i \in DOMAIN df.rows |-> RowsFor(df.rows[i])])]

\* The union of the frames' columns, in order of first appearance.
RECURSIVE UnionColumns(_, _)
UnionColumns(frames, acc) ==
    IF frames = <<>> THEN acc
    ELSE UnionColumns(Tail(frames),
                      acc \o SelectSeq(Head(frames).columns, LAMBDA c : c \notin Range(acc)))

\* A frame of the concatenation, widened to the columns cols.
Widen(frame, cols) ==
    [i \in DOMAIN frame.rows |->
        frame.rows[i] @@ [c \in Range(cols) \ Range(frame.columns) |-> None]]

\* The same, with "0" where a column is missing.
WidenZero(frame, cols) ==
    [i \in DOMAIN frame.rows |->
        frame.rows[i] @@ [c \in Range(cols) \ Range(frame.columns) |-> Str("0")]]

\* The cells pl.concat(how="diagonal") gives a frame's rows in the columns the
\* frame lacks.
DiagonalRows(frame, cols) == Widen(frame, cols)

\* pl.concat(frames, how="diagonal")
concat(frames) ==
    LET cols == UnionColumns(frames, <<>>)
    IN  [columns |-> cols,
         rows    |-> Flatten([i \in DOMAIN frames |-> DiagonalRows(frames[i], cols)])]

\* LazyFrame.collect(): the frame the plan denotes.
collect(lf) == lf

(***************************************************************************)
(* load_table                                                              *)
(***************************************************************************)
\* join_cfg.get("how", "left")
\* The kind of a join, were the default "inner".
JoinHowInner(join_cfg) == Get(join_cfg, "how", "inner")

JoinHow(join_cfg) == Get(join_cfg, "how", "left")

\* The loop over table_cfg.get("join", []): each join sees the result of the
\* joins before it.
RECURSIVE ApplyJoins(_, _)
ApplyJoins(df, joins) ==
    IF joins = <<>> THEN df
    ELSE LET join_cfg == Head(joins)
             join_df  == scan_csv(join_cfg.file_path)
         IN  ApplyJoins(join(df,
                             select(join_df, <<join_cfg.on>> \o join_cfg.columns),
                             join_cfg.on, JoinHow(join_cfg)),
                        Tail(joins))

\* The timestamp of a row: parsed from the declared column, null when the table
\* declares none.
timestamp_expr(row, table_cfg) ==
    IF "timestamp" \in DOMAIN table_cfg THEN strptime(row[table_cfg.timestamp]) ELSE None

\* f"{table_name}/{attr}"
AttributeName(table_name, attr) == table_name \o "/" \o attr

\* Every column of the joined frame, were the projection not limited to the
\* declared attributes.
AllColumns(df, table_cfg) == df.columns

\* attribute_cols = table_cfg.get("attributes", [])
AttributeCols(df, table_cfg) == Get(table_cfg, "attributes", <<>>)

\* The rows df.select(...) projects: all of them.
SelectedRows(df, table_cfg) == df.rows

\* event_frame = df.select(base_columns + attribute_columns)
EventFrame(df, table_name, table_cfg) ==
    LET attribute_cols == AttributeCols(df, table_cfg)
        rows == SelectedRows(df, table_cfg)
        Event(r) ==
            ("patient_id" :> r[table_cfg.patient_id])
            @@ ("event_type" :> Str(table_name))
            @@ ("timestamp" :> timestamp_expr(r, table_cfg))
            @@ [c \in {AttributeName(table_name, a) : a \in Range(attribute_cols)} |->
                  r[CHOOSE a \in Range(attribute_cols) : AttributeName(table_name, a) = c]]
            @@ ("#file" :> r["#file"]) @@ ("#row" :> r["#row"])
    IN  [columns |-> <<"patient_id", "event_type", "timestamp">>
                     \o [i \in DOMAIN attribute_cols |->
                           AttributeName(table_name, attribute_cols[i])],
         rows    |-> [i \in DOMAIN rows |-> Event(rows[i])]]

load_table(table_name) ==
    IF table_name \notin DOMAIN config
    THEN Raise("ValueError")
    ELSE LET table_cfg == config[table_name]
             joins     == Get(table_cfg, "join", <<>>)
         IN  IF table_cfg.file_path \notin DOMAIN files
             THEN Raise("FileNotFoundError")
             ELSE IF \E i \in DOMAIN joins : joins[i].file_path \notin DOMAIN files
             THEN Raise("FileNotFoundError")
             ELSE Return(EventFrame(ApplyJoins(scan_csv(table_cfg.file_path), joins),
                                    table_name, table_cfg))

(***************************************************************************)
(* load_data                                                               *)
(***************************************************************************)
load_data ==
    LET frames == [i \in DOMAIN tables |-> load_table(tables[i])]
    IN  IF \E i \in DOMAIN frames : ~frames[i].ok
        THEN frames[CHOOSE i \in DOMAIN frames :
                      ~frames[i].ok /\ \A j \in 1..(i - 1) : frames[j].ok]
        ELSE Return(concat([i \in DOMAIN frames |-> frames[i].value]))

(***************************************************************************)
(* The cached properties and the per-patient views.  self is the mutable   *)
(* part of the instance: [collected, ids, evals]; every operation returns  *)
(* the instance it leaves behind next to its result.                       *)
(***************************************************************************)
Self == [collected |-> _collected_global_event_df,
         ids       |-> _unique_patient_ids,
         evals     |-> evaluations]

\* The property without its test of the cache: every read collects.
collected_global_event_df_uncached(self) ==
    [value |-> collect(global_event_df),
     self  |-> [self EXCEPT !.collected = collect(global_event_df), !.evals = @ + 1]]

\* The property collected_global_event_df.
collected_global_event_df(self) ==
    IF self.collected = None
    THEN [value |-> collect(global_event_df),
          self  |-> [self EXCEPT !.collected = collect(global_event_df),
                                 !.evals = @ + 1]]
    ELSE [value |-> self.collected, self |-> self]

\* The distinct values of the patient_id column (null is one of them).
PatientIds(df) == {df.rows[i]["patient_id"] : i \in DOMAIN df.rows}

\* The orders in which unique() and group_by may produce the ids: neither
\* maintains an order.
IdOrders(df) == Permutations_of(PatientIds(df))

\* The property unique_patient_ids; order is the order unique() produces.
unique_patient_ids(self, order) ==
    IF self.ids = None
    THEN LET c == collected_global_event_df(self)
         IN  [value |-> order, self |-> [c.self EXCEPT !.ids = List(order)]]
    ELSE [value |-> self.ids.items, self |-> self]

\* The polars comparison a == b: null when either side is null.
PlEq(a, b) == IF a = None \/ b = None THEN None ELSE [null |-> FALSE, b |-> a = b]

\* DataFrame.filter(pl.col("patient_id") == patient_id): the rows where the
\* comparison is true.
FilterPatient(df, patient_id) ==
    [columns |-> df.columns,
     rows    |-> SelectSeq(df.rows,
                           LAMBDA r : PlEq(r["patient_id"], patient_id)
                                        = [null |-> FALSE, b |-> TRUE])]

\* One group of group_by("patient_id"): the rows whose key is the group's key;
\* the rows with a null key form a group.
Group(df, key) ==
    [columns |-> df.columns,
     rows    |-> SelectSeq(df.rows, LAMBDA r : r["patient_id"] = key)]

Patient(patient_id, data_source) ==
    [patient_id |-> patient_id, data_source |-> data_source]

get_patient(self, patient_id, order) ==
    LET u == unique_patient_ids(self, order)
    IN  IF patient_id \notin Range(u.value)
        THEN [result |-> Raise("AssertionError"), self |-> u.self]
        ELSE LET c == collected_global_event_df(u.self)
             IN  [result |-> Return(Patient(patient_id,
                                            FilterPatient(c.value, patient_id))),
                  self   |-> c.self]

\* The patients iter_patients yields when it is run to its end; order is the
\* order in which group_by produces the groups.
iter_patients(self, order) ==
    LET c == collected_global_event_df(self)
    IN  [result |-> Return([i \in DOMAIN order |->
                              Patient(order[i], Group(c.value, order[i]))]),
         self   |-> c.self]

stats(self) ==
    LET c == collected_global_event_df(self)
    IN  [result |-> Return([n_patients |-> Cardinality(PatientIds(c.value)),
                            n_events   |-> Len(c.value.rows)]),
         self   |-> c.self]

(***************************************************************************)
(* set_task.  A task is called with a patient and returns samples; the two *)
(* tasks below stand for the task functions of pyhealth.tasks.             *)
(***************************************************************************)
Task(name) == [null |-> FALSE, task_name |-> name]

Tasks == {Task("per_event"), Task("repeat_visitors")}

\* task(patient)
Call(task, patient) ==
    LET rows == patient.data_source.rows
    IN  IF task.task_name = "per_event"
        THEN [i \in DOMAIN rows |->
                [patient_id |-> patient.patient_id, visit |-> i,
                 label |-> rows[i]["event_type"]]]
        ELSE IF Len(rows) >= 2
             THEN <<[patient_id |-> patient.patient_id, visit |-> 0,
                     label |-> Str("repeat")]>>
             ELSE <<>>

\* samples = task(patient): the samples of the last patient only.
Assign(samples, returned) == returned

\* samples.extend(task(patient))
Extend(samples, returned) == samples \o returned

\* The loop of set_task over the patients: the pooled samples, and the patients
\* the task was called with, in call order.
RECURSIVE RunTask(_, _, _, _)
RunTask(task, patients, samples, calls) ==
    IF patients = <<>> THEN [samples |-> samples, calls |-> calls]
    ELSE RunTask(task, Tail(patients),
                 Extend(samples, Call(task, Head(patients))),
                 Append(calls, Head(patients)))

SampleDataset(samples, task) ==
    [samples |-> samples, task_name |-> task]

Pooled(self, task, order) ==
    LET it  == iter_patients(self, order)
        run == RunTask(task, it.result.value, <<>>, <<>>)
    IN  [result |-> Return(SampleDataset(run.samples, task)),
         self   |-> it.self,
         calls  |-> run.calls]

\* set_task with the patients iterated before the default task is asserted.
set_task_late_assert(self, task, order) ==
    LET chosen == IF task = None THEN default_task ELSE task
        it     == iter_patients(self, order)
    IN  IF chosen = None
        THEN [result |-> Raise("AssertionError"), self |-> it.self, calls |-> <<>>]
        ELSE Pooled(self, chosen, order)

set_task(self, task, order) ==
    IF task = None /\ default_task = None
    THEN [result |-> Raise("AssertionError"), self |-> self, calls |-> <<>>]
    ELSE Pooled(self, IF task = None THEN default_task ELSE task, order)

(***************************************************************************)
(* The files and configurations the instances are built from.              *)
(***************************************************************************)
DiagRow(p, t, c) == [pid |-> p, ts |-> t, code |-> c]

\* The rows the file of the diagnoses table is made of.
DiagRowCands ==
    << DiagRow(Str("P1"), Str("2020-01-01 10:00:00"), Str("c1")),
       DiagRow(Str("P1"), Str("not-a-date"),          Str("c2")),
       DiagRow(Str("P2"), Str("2020-13-01 10:00:00"), Str("c9")),
       DiagRow(None,      Str("2020/01/01 10:00:00"), Str("c1")),
       DiagRow(Str("P2"), None,                       None) >>

\* Those among them that matter to the per-patient views.
PatientRowCands ==
    << DiagRow(Str("P1"), Str("2020-01-01 10:00:00"), Str("c1")),
       DiagRow(Str("P1"), Str("not-a-date"),          Str("c2")),
       DiagRow(None,      Str("2020/01/01 10:00:00"), Str("c1")),
       DiagRow(Str("P2"), None,                       None) >>

\* The candidates at the positions picked, in the candidates' order.
RECURSIVE Picked(_, _, _)
Picked(cands, picked, i) ==
    IF i > Len(cands) THEN <<>>
    ELSE (IF i \in picked THEN <<cands[i]>> ELSE <<>>) \o Picked(cands, picked, i + 1)

\* The files of the diagnoses table: one to MaxRows of the candidate rows.
DiagFiles(cands) ==
    {[columns |-> <<"pid", "ts", "code">>, rows |-> Picked(cands, picked, 1)] :
        picked \in {p \in SUBSET DOMAIN cands : Cardinality(p) \in 1..MaxRows}}

CodeRow(c, d, t) == [code |-> c, description |-> d, ts |-> t]

CodesUnique ==
    [columns |-> <<"code", "description", "ts">>,
     rows    |-> << CodeRow(Str("c1"), Str("flu"),  Str("2021-02-30 10:00:00")),
                    CodeRow(Str("c2"), None,        Str("2020-01-01 10:00:00")) >>]

CodesRepeated ==
    [columns |-> <<"code", "description", "ts">>,
     rows    |-> << CodeRow(Str("c1"), Str("flu"),       Str("2020-01-01 10:00:00")),
                    CodeRow(None,      Str("unknown"),   Str("2020-01-01 10:00:00")),
                    CodeRow(Str("c1"), Str("influenza"), Str("not-a-date")) >>]

CodeFiles == {CodesUnique, CodesRepeated}

GroupsFile ==
    [columns |-> <<"description", "family">>,
     rows    |-> << [description |-> Str("flu"), family |-> Str("viral")] >>]

LabsFile ==
    [columns |-> <<"subject", "value">>,
     rows    |-> << [subject |-> Str("P1"), value |-> Str("7.1")],
                    [subject |-> Str("P2"), value |-> None] >>]

Files(diag, codes) ==
    [f \in {"diagnoses.csv", "codes.csv", "groups.csv", "labs.csv"} |->
        CASE f = "diagnoses.csv" -> diag
          [] f = "codes.csv"     -> codes
          [] f = "groups.csv"    -> GroupsFile
          [] f = "labs.csv"      -> LabsFile]

\* An optional key of a configuration entry.
Opt(key, values) == {key :> v : v \in values} \cup {<<>>}

CodesJoin(columns) == [file_path |-> "codes.csv", on |-> "code", columns |-> columns]

GroupsJoin == [file_path |-> "groups.csv", on |-> "description", columns |-> <<"family">>]

\* The join and attributes keys of the entries of the diagnoses table.
JoinsAndAttributes ==
    { <<>>,
      [attributes |-> <<"code">>],
      [join |-> <<CodesJoin(<<"description">>)>>,
       attributes |-> <<"code", "description">>],
      [join |-> <<CodesJoin(<<"description">>)>>,
       attributes |-> <<"code">>],
      [join |-> <<CodesJoin(<<"description">>) @@ [how |-> "inner"]>>,
       attributes |-> <<"code", "description">>],
      [join |-> <<CodesJoin(<<"description">>) @@ [how |-> "left"]>>,
       attributes |-> <<"description">>],
      [join |-> <<CodesJoin(<<"description", "ts">>)>>,
       attributes |-> <<"ts", "description">>],
      [join |-> <<CodesJoin(<<"description", "ts">>)>>,
       attributes |-> <<"ts_right", "code">>],
      [join |-> <<CodesJoin(<<"description">>), GroupsJoin>>,
       attributes |-> <<"description", "family">>] }

\* The columns a table's frame has after its joins.
RECURSIVE JoinedColumns(_, _)
JoinedColumns(columns, joins) ==
    IF joins = <<>> THEN columns
    ELSE JoinedColumns(columns \o [i \in DOMAIN Head(joins).columns |->
                                     RightName(Head(joins).columns[i], columns)],
                       Tail(joins))

\* The entries a configuration may hold for the diagnoses table: with and
\* without a timestamp column, every attribute naming a column of the joined
\* frame, no attribute named twice.
DiagConfigs ==
    {cfg \in {[file_path |-> "diagnoses.csv", patient_id |-> "pid"] @@ t @@ ja :
                t \in Opt("timestamp", {"ts"}), ja \in JoinsAndAttributes} :
        /\ IsInjective(Get(cfg, "attributes", <<>>))
        /\ Range(Get(cfg, "attributes", <<>>))
             \subseteq Range(JoinedColumns(<<"pid", "ts", "code">>,
                                           Get(cfg, "join", <<>>)))}

LabsConfig ==
    [file_path |-> "labs.csv", patient_id |-> "subject", attributes |-> <<"value">>]

NotesConfig ==
    [file_path |-> "notes.csv", patient_id |-> "pid", attributes |-> <<"text">>]

Config(diagCfg) ==
    [t \in {"diagnoses", "labs", "notes"} |->
        CASE t = "diagnoses" -> diagCfg
          [] t = "labs"      -> LabsConfig
          [] t = "notes"     -> NotesConfig]

\* The configuration of the instances whose whole life is followed.
DefaultDiagConfig ==
    [file_path |-> "diagnoses.csv", patient_id |-> "pid", timestamp |-> "ts",
     attributes |-> <<"code", "description">>,
     join |-> <<[file_path |-> "codes.csv", on |-> "code",
                 columns |-> <<"description">>]>>]

TableNames == {"diagnoses", "labs", "notes", "visits"}

TableLists == {<<"diagnoses">>, <<"diagnoses", "labs">>, <<"labs", "diagnoses">>}

PatientArgs == {Str("P1"), Str("P2"), Str("P999"), None}

(***************************************************************************)
(* __init__                                                                *)
(***************************************************************************)
Construct(f, c, t, d) ==
    /\ files = f
    /\ config = c
    /\ tables = t
    /\ default_task = d
    /\ load_data.ok
    /\ global_event_df = load_data.value
    /\ _collected_global_event_df = None
    /\ _unique_patient_ids = None
    /\ evaluations = 0
    /\ ret = [op |-> "__init__"]

Init ==
    \E diag \in DiagFiles(PatientRowCands),
       t \in {<<"diagnoses">>, <<"diagnoses", "labs">>},
       d \in {None} \cup {Task("per_event")} :
        Construct(Files(diag, CodesUnique), Config(DefaultDiagConfig), t, d)

InitLoad ==
    \E diag \in DiagFiles(DiagRowCands), codes \in CodeFiles, diagCfg \in DiagConfigs,
       t \in TableLists :
        Construct(Files(diag, codes), Config(diagCfg), t, None)

(***************************************************************************)
(* The operations of an instance.                                          *)
(***************************************************************************)
Static == UNCHANGED <<files, config, tables, default_task, global_event_df>>

Commit(self) ==
    /\ _collected_global_event_df' = self.collected
    /\ _unique_patient_ids' = self.ids
    /\ evaluations' = self.evals

\* The orders unique() may produce; it runs only while the ids are not cached.
UniqueOrders ==
    IF _unique_patient_ids = None THEN IdOrders(collect(global_event_df)) ELSE {<<>>}

LoadTable ==
    \E table_name \in TableNames :
        /\ ret' = [op |-> "load_table", table_name |-> table_name,
                   result |-> load_table(table_name)]
        /\ Commit(Self)
        /\ Static

LoadData ==
    /\ ret' = [op |-> "load_data", result |-> load_data]
    /\ Commit(Self)
    /\ Static

CollectedGlobalEventDf ==
    LET c == collected_global_event_df(Self)
    IN  /\ ret' = [op |-> "collected_global_event_df", result |-> Return(c.value)]
        /\ Commit(c.self)
        /\ Static

UniquePatientIds ==
    \E order \in UniqueOrders :
        LET u == unique_patient_ids(Self, order)
        IN  /\ ret' = [op |-> "unique_patient_ids", result |-> Return(u.value)]
            /\ Commit(u.self)
            /\ Static

GetPatient ==
    \E patient_id \in PatientArgs, order \in UniqueOrders :
        LET g == get_patient(Self, patient_id, order)
        IN  /\ ret' = [op |-> "get_patient", patient_id |-> patient_id,
                       result |-> g.result]
            /\ Commit(g.self)
            /\ Static

IterPatients ==
    \E order \in IdOrders(collect(global_event_df)) :
        LET it == iter_patients(Self, order)
        IN  /\ ret' = [op |-> "iter_patients", result |-> it.result]
            /\ Commit(it.self)
            /\ Static

Stats ==
    LET st == stats(Self)
    IN  /\ ret' = [op |-> "stats", result |-> st.result]
        /\ Commit(st.self)
        /\ Static

SetTask ==
    \E task \in {None} \cup Tasks, order \in IdOrders(collect(global_event_df)) :
        LET st == set_task(Self, task, order)
        IN  /\ ret' = [op |-> "set_task", task |-> task, result |-> st.result,
                       calls |-> st.calls]
            /\ Commit(st.self)
            /\ Static

Next ==
    \/ LoadTable
    \/ LoadData
    \/ CollectedGlobalEventDf
    \/ UniquePatientIds
    \/ GetPatient
    \/ IterPatients
    \/ Stats
    \/ SetTask

Spec == Init /\ [][Next]_vars

NextLoad ==
    \/ LoadTable
    \/ LoadData

SpecLoad == InitLoad /\ [][NextLoad]_vars

(***************************************************************************)
(* Properties of the materialization cache (Spec).                         *)
(***************************************************************************)
\* The operations that read the collected frame whenever they run.
Materializing ==
    {"collected_global_event_df", "get_patient", "iter_patients", "stats"}

MaterializationStep ==
    /\ evaluations' \in {evaluations, evaluations + 1}
    /\ evaluations' = evaluations + 1
         <=> (_collected_global_event_df = None /\ _collected_global_event_df' # None)
    /\ _collected_global_event_df' # None
         => _collected_global_event_df' = collect(global_event_df)
    /\ _collected_global_event_df # None
         => /\ _collected_global_event_df' = _collected_global_event_df
            /\ evaluations' = evaluations
    /\ ret'.op \in {"load_table", "load_data"}
         => /\ evaluations' = evaluations
            /\ _collected_global_event_df' = _collected_global_event_df
    /\ (\/ ret'.op \in Materializing
        \/ ret'.op = "unique_patient_ids"
        \/ ret'.op = "set_task" /\ ret'.result.ok)
         => /\ _collected_global_event_df' # None
            /\ evaluations' = 1
    /\ ret'.op = "collected_global_event_df"
         => ret'.result.value = _collected_global_event_df'

\* C1: over any sequence of operations the lazy global frame is evaluated
\* exactly once: construction, load_table and load_data evaluate nothing, the
\* first operation that reads the collected frame evaluates it, and every later
\* one gets the cached frame, which is neither evaluated again nor changed.
C1_EvaluatedOnce ==
    /\ evaluations = 0 /\ _collected_global_event_df = None
    /\ [][MaterializationStep]_vars

\* C1, witness: a later access; the ids were cached by an earlier operation, which collected
\* the frame, and iter_patients has read it since.
C1_Witness ==
    /\ ret.op = "iter_patients"
    /\ _unique_patient_ids # None
    /\ _collected_global_event_df # None
    /\ evaluations = 1

(***************************************************************************)
(* Properties of set_task (Spec).                                          *)
(***************************************************************************)
\* The task a call of set_task runs.
TaskRun == IF ret.task = None THEN default_task ELSE ret.task

\* C8: set_task calls the task exactly once for every patient iter_patients
\* produces, and the pooled samples are the per-patient results concatenated in
\* the order of the calls.
C8_PooledInOrder ==
    (ret.op = "set_task" /\ ret.result.ok) =>
        LET df == _collected_global_event_df
            called == [i \in DOMAIN ret.calls |-> ret.calls[i].patient_id]
        IN  /\ IsInjective(called)
            /\ Range(called) = PatientIds(df)
            /\ \A i \in DOMAIN ret.calls :
                   ret.calls[i] = Patient(called[i], Group(df, called[i]))
            /\ ret.result.value.samples
                 = Flatten([i \in DOMAIN ret.calls |-> Call(TaskRun, ret.calls[i])])

\* C8, witness: three patients, one of them without samples, the others with.
C8_Witness ==
    /\ ret.op = "set_task" /\ ret.result.ok
    /\ Len(ret.calls) = 3
    /\ Call(TaskRun, ret.calls[2]) = <<>>
    /\ Call(TaskRun, ret.calls[1]) # <<>>
    /\ Call(TaskRun, ret.calls[3]) # <<>>

\* C9: set_task without a task on a dataset without a default task raises
\* before any patient is iterated: no task call, no SampleDataset, and the
\* caches are as they were.
C9_NoDefaultTask ==
    [][(ret'.op = "set_task" /\ ret'.task = None /\ default_task = None) =>
          /\ ret'.result = Raise("AssertionError")
          /\ ret'.calls = <<>>
          /\ UNCHANGED <<_collected_global_event_df, _unique_patient_ids, evaluations>>
      ]_vars

\* C9, witness: the call has raised and nothing was collected.
C9_Witness ==
    /\ ret.op = "set_task" /\ ret.task = None /\ default_task = None
    /\ ret.result = Raise("AssertionError")
    /\ _collected_global_event_df = None
    /\ evaluations = 0

(***************************************************************************)
(* Properties of the per-patient views (Spec).                             *)
(***************************************************************************)
\* C2: get_patient raises when the id is not among unique_patient_ids, and a
\* call that returns gives a patient with at least one event, all of them of
\* the id asked for.
C2_NeverEmptyPatient ==
    ret.op = "get_patient" =>
        /\ ret.patient_id \notin Range(_unique_patient_ids.items)
             => ret.result = Raise("AssertionError")
        /\ ret.result.ok =>
             LET rows == ret.result.value.data_source.rows
             IN  /\ rows # <<>>
                 /\ \A i \in DOMAIN rows : rows[i]["patient_id"] = ret.patient_id

\* C2, for an id that is text, holds: the empty patient needs a null id.
C2_HoldsForText ==
    (ret.op = "get_patient" /\ ret.patient_id # None) => C2_NeverEmptyPatient

\* C10: iter_patients yields one patient per distinct patient_id, the ids of
\* unique_patient_ids; each holds the rows of its id, the events get_patient
\* returns for it; and the patients partition the collected frame.
C10_ViewsAgree ==
    ret.op = "iter_patients" =>
        LET df == _collected_global_event_df
            patients == ret.result.value
            yielded == [i \in DOMAIN patients |-> patients[i].patient_id]
            order == CHOOSE o \in IdOrders(df) : TRUE
        IN  /\ IsInjective(yielded)
            /\ Range(yielded) = PatientIds(df)
            /\ Range(yielded) = Range(unique_patient_ids(Self, order).value)
            /\ \A i \in DOMAIN patients :
                 /\ patients[i].data_source.rows
                      = SelectSeq(df.rows, LAMBDA r : r["patient_id"] = yielded[i])
                 /\ get_patient(Self, yielded[i], order).result
                      = Return(patients[i])
            /\ \A k \in DOMAIN df.rows :
                 Cardinality({i \in DOMAIN patients :
                                df.rows[k] \in Range(patients[i].data_source.rows)}) = 1

\* C10 holds of the frames without a null patient_id.
C10_HoldsWithoutNull ==
    (ret.op = "iter_patients" /\ None \notin PatientIds(_collected_global_event_df))
        => C10_ViewsAgree

(***************************************************************************)
(* Properties of load_table and load_data (SpecLoad).                      *)
(***************************************************************************)
\* The cell of the file a row of an event frame was read from.
SourceCell(r, column) == files[r["#file"]].rows[r["#row"]][column]

\* C3: every record of the unified frame has a patient_id that is not null and
\* an event_type that is the name of the table its row was read from.
C3_IdentityNotNull ==
    \A k \in DOMAIN global_event_df.rows :
        LET r == global_event_df.rows[k]
        IN  /\ r["patient_id"] # None
            /\ r["event_type"] # None
            /\ r["event_type"].v \in Range(tables)
            /\ config[r["event_type"].v].file_path = r["#file"]

\* C4: the frame load_table returns for a table with N declared attributes has
\* exactly the 3 + N columns patient_id, event_type, timestamp and
\* "<table>/<attribute>" for each attribute, with or without joins or a
\* timestamp column; no other column of the source or of a joined file appears.
C4_ColumnsOfTable ==
    (ret.op = "load_table" /\ ret.result.ok) =>
        LET attrs == Get(config[ret.table_name], "attributes", <<>>)
            frame == ret.result.value
            expected == {"patient_id", "event_type", "timestamp"}
                        \cup {ret.table_name \o "/" \o a : a \in Range(attrs)}
        IN  /\ Len(frame.columns) = 3 + Len(attrs)
            /\ IsInjective(frame.columns)
            /\ Range(frame.columns) = expected
            /\ SubSeq(frame.columns, 1, 3) = <<"patient_id", "event_type", "timestamp">>
            /\ \A i \in DOMAIN frame.rows :
                 DOMAIN frame.rows[i] = expected \cup {"#file", "#row"}

\* C4, witness: a joined table without a timestamp column, two attributes declared.
C4_Witness ==
    /\ ret.op = "load_table" /\ ret.result.ok
    /\ ret.table_name = "diagnoses"
    /\ "join" \in DOMAIN config["diagnoses"]
    /\ "timestamp" \notin DOMAIN config["diagnoses"]
    /\ Len(ret.result.value.columns) = 5
    /\ ret.result.value.rows # <<>>

\* The frame of the table a row of the unified frame comes from.
FrameOf(r) == load_table(r["event_type"].v).value

\* C5: load_data returns a frame whose columns are the union of the tables'
\* columns and whose rows are the rows of the tables' frames; in every row the
\* columns of the other tables are null; tables with different attributes
\* concatenate without an error.
C5_DiagonalUnion ==
    LET g == global_event_df
        frames == [i \in DOMAIN tables |-> load_table(tables[i]).value]
    IN  /\ load_data = Return(g)
        /\ ret.op = "load_data" => ret.result = Return(g)
        /\ IsInjective(g.columns)
        /\ Range(g.columns) = UNION {Range(frames[i].columns) : i \in DOMAIN frames}
        /\ [k \in DOMAIN g.rows |->
              [c \in Range(FrameOf(g.rows[k]).columns) \cup {"#file", "#row"} |->
                  g.rows[k][c]]]
             = Flatten([i \in DOMAIN frames |-> frames[i].rows])
        /\ \A k \in DOMAIN g.rows :
             \A c \in Range(g.columns) \ Range(FrameOf(g.rows[k]).columns) :
                 c \in DOMAIN g.rows[k] /\ g.rows[k][c] = None

\* C5, witness: two tables with different attributes, a row of each with the other's
\* attribute null.
C5_Witness ==
    /\ ret.op = "load_data" /\ ret.result.ok
    /\ tables = <<"labs", "diagnoses">>
    /\ Len(ret.result.value.columns) = 6
    /\ \E k \in DOMAIN ret.result.value.rows :
         /\ ret.result.value.rows[k]["event_type"] = Str("labs")
         /\ ret.result.value.rows[k]["diagnoses/code"] = None
         /\ ret.result.value.rows[k]["labs/value"] # None
    /\ \E k \in DOMAIN ret.result.value.rows :
         /\ ret.result.value.rows[k]["event_type"] = Str("diagnoses")
         /\ ret.result.value.rows[k]["diagnoses/code"] # None
         /\ ret.result.value.rows[k]["labs/value"] = None

(***************************************************************************)
(* Joins (SpecLoad).                                                       *)
(***************************************************************************)
\* The configuration of the table load_table was called with, and its joins.
CalledCfg == config[ret.table_name]

CalledJoins == Get(CalledCfg, "join", <<>>)

IsLeft(join_cfg) == "how" \notin DOMAIN join_cfg \/ join_cfg.how = "left"

\* The table's frame before its k-th join.
Before(k) == ApplyJoins(scan_csv(CalledCfg.file_path), SubSeq(CalledJoins, 1, k - 1))

\* What the rows made from line `line` of the table's file must hold in a
\* column pulled by the k-th join: for each of them as it stands before the
\* join, the cells of the auxiliary rows with its key, null when there is none.
PulledCells(k, column, line) ==
    LET join_cfg == CalledJoins[k]
        aux == files[join_cfg.file_path].rows
        Matching(b) == {j \in DOMAIN aux :
                          /\ b[join_cfg.on] # None
                          /\ aux[j][join_cfg.on] = b[join_cfg.on]}
        base == {i \in DOMAIN Before(k).rows : Before(k).rows[i]["#row"] = line}
    IN  UNION {IF Matching(Before(k).rows[i]) = {} THEN {None}
               ELSE {aux[j][column] : j \in Matching(Before(k).rows[i])} : i \in base}

\* The frame returned holds the column pulled, filled from the auxiliary file
\* for every line of the table's file.
PulledColumnFilled(k, column) ==
    LET frame == ret.result.value
        name  == ret.table_name \o "/" \o column
    IN  /\ name \in Range(frame.columns)
        /\ \A line \in DOMAIN files[CalledCfg.file_path].rows :
             LET made == {i \in DOMAIN frame.rows : frame.rows[i]["#row"] = line}
             IN  /\ made # {}
                 /\ {frame.rows[i][name] : i \in made} = PulledCells(k, column, line)

\* C6, as claimed: a table left-joined to an auxiliary file, pulling a column
\* c, yields records with "<table>/c", filled for every base row from the
\* auxiliary rows with its key, null without a match, no base row dropped.
C6_PulledColumnAlways ==
    (ret.op = "load_table" /\ ret.result.ok /\ \A k \in DOMAIN CalledJoins : IsLeft(CalledJoins[k]))
        => \A k \in DOMAIN CalledJoins :
             \A i \in DOMAIN CalledJoins[k].columns :
                 PulledColumnFilled(k, CalledJoins[k].columns[i])

\* C6, amended: the same for a pulled column c that is a declared attribute of
\* the table and is not the name of a column the frame has before the join.
C6_PulledColumnWhenDeclared ==
    (ret.op = "load_table" /\ ret.result.ok /\ \A k \in DOMAIN CalledJoins : IsLeft(CalledJoins[k]))
        => \A k \in DOMAIN CalledJoins :
             \A i \in DOMAIN CalledJoins[k].columns :
                 LET c == CalledJoins[k].columns[i]
                 IN  (/\ c \in Range(Get(CalledCfg, "attributes", <<>>))
                      /\ c \notin Range(Before(k).columns))
                         => PulledColumnFilled(k, c)

\* C6, witness: a join that leaves its kind to the default; a line with no auxiliary row of
\* its key and a null description, a line with one and its description.
C6_Witness ==
    /\ ret.op = "load_table" /\ ret.result.ok /\ ret.table_name = "diagnoses"
    /\ Len(CalledJoins) = 1 /\ "how" \notin DOMAIN CalledJoins[1]
    /\ "description" \in Range(Get(CalledCfg, "attributes", <<>>))
    /\ \E i, j \in DOMAIN ret.result.value.rows :
         /\ SourceCell(ret.result.value.rows[i], "code") = Str("c9")
         /\ ret.result.value.rows[i]["diagnoses/description"] = None
         /\ SourceCell(ret.result.value.rows[j], "code") = Str("c1")
         /\ ret.result.value.rows[j]["diagnoses/description"] = Str("flu")

(***************************************************************************)
(* Timestamps (SpecLoad).                                                  *)
(***************************************************************************)
\* The texts of the files that are written as %Y-%m-%d %H:%M:%S.
WellFormedTimestamps == {Str("2020-01-01 10:00:00"), Str("2020-01-02 09:30:00")}

\* C7: with a declared timestamp column, a row whose text is not of the format
\* YYYY-MM-DD HH:MM:SS stays in the frame with a null timestamp and the load
\* does not fail; without one, every timestamp is null.
C7_LenientTimestamps ==
    /\ load_data.ok
    /\ (ret.op = "load_table" /\ ret.table_name \in {"diagnoses", "labs"}) =>
         LET frame == ret.result.value
         IN  /\ ret.result.ok
             /\ "timestamp" \in DOMAIN CalledCfg =>
                  /\ \A i \in DOMAIN frame.rows :
                       SourceCell(frame.rows[i], CalledCfg.timestamp)
                           \notin WellFormedTimestamps
                         => frame.rows[i]["timestamp"] = None
                  /\ (\A k \in DOMAIN CalledJoins : IsLeft(CalledJoins[k])) =>
                       \A line \in DOMAIN files[CalledCfg.file_path].rows :
                           \E i \in DOMAIN frame.rows : frame.rows[i]["#row"] = line
             /\ "timestamp" \notin DOMAIN CalledCfg =>
                  \A i \in DOMAIN frame.rows : frame.rows[i]["timestamp"] = None

\* C7, witness: a frame with a row of each kind; "not-a-date" and a date with slashes with a
\* null timestamp, a well-formed text with its date-time.
C7_Witness ==
    /\ ret.op = "load_table" /\ ret.result.ok /\ ret.table_name = "diagnoses"
    /\ "timestamp" \in DOMAIN CalledCfg
    /\ \E i, j, k \in DOMAIN ret.result.value.rows :
         /\ SourceCell(ret.result.value.rows[i], "ts") = Str("not-a-date")
         /\ ret.result.value.rows[i]["timestamp"] = None
         /\ SourceCell(ret.result.value.rows[j], "ts") = Str("2020/01/01 10:00:00")
         /\ ret.result.value.rows[j]["timestamp"] = None
         /\ SourceCell(ret.result.value.rows[k], "ts") = Str("2020-01-01 10:00:00")
         /\ ret.result.value.rows[k]["timestamp"] = Datetime(2020, 1, 1, 10, 0, 0)

====
